---- MODULE Spec2Model ----
(***************************************************************************)
(* Model of the calendar agent of src/Ai.py/main.py: the in-memory         *)
(* events_store, the persisted calendar_events.json, and the interactive   *)
(* loop main() that dispatches every input line through handle_command to  *)
(* schedule_event, list_events and remove_event.                           *)
(*                                                                         *)
(* Time is counted in minutes since 2025-06-02 00:00.  A datetime is a     *)
(* record [min, tz]: tz = "naive" for a datetime without tzinfo, "utc" for *)
(* a timezone-aware one (dateparser returns an aware datetime when the     *)
(* text names a timezone).  Python orders two datetimes only when both are *)
(* naive or both are aware; otherwise the comparison raises TypeError.     *)
(*                                                                         *)
(* The guard at main.py:180 misspells __name__, so the script as written   *)
(* stops with NameError before main() is called.  The model takes main()   *)
(* as entered: it describes the loop and the functions it drives.          *)
(*                                                                         *)
(* Spec starts from a first installation (no file) and lets the process    *)
(* end and start again on the file it saved.  SpecLoad starts from a file  *)
(* that something else wrote, well-formed or not.                          *)
(***************************************************************************)
EXTENDS Integers, Sequences, FiniteSets, TLC

VARIABLES
    events_store,   \* main.py:47   the global list of Event
    file,           \* main.py:14   contents of CALENDAR_FILE on disk
    uuid_count,     \* main.py:79   number of uuid4() values drawn so far
    pc,             \* where the process is: start, prompt, exited, crashed
    command,        \* main.py:174  the line read by main(), after matching
    output          \* main.py:178  what handle_command returned or raised

vars == <<events_store, file, uuid_count, pc, command, output>>

----------------------------------------------------------------------------
\* Bounds of the model

MaxUuid == 3

----------------------------------------------------------------------------
\* Values fixed by the program

DEFAULT_PARTICIPANTS == <<"Parth", "Nitish", "Atul">>

DEFAULT_DURATION == 30

MinutesPerDay == 24 * 60

EventFields == {"id", "title", "start", "end", "participants"}

----------------------------------------------------------------------------
\* Inputs: the captures of the command patterns

Titles == {"meeting"}

\* group(2) of ADD_PATTERN / group(1) of VIEW_PATTERN
DateTexts == {"2025-06-02 09:00", "2025-06-02 09:15",
              "2025-06-03 00:00", "2025-06-05 09:00 UTC", "asdfgh"}

\* the optional tail of an add command, groups (3) and (4) of ADD_PATTERN:
\* the digits of " for N minutes" and the text after " with ", each "" when
\* the group took no part in the match
AddTails == {[duration |-> "",   with |-> ""],
             [duration |-> "0",  with |-> ""],
             [duration |-> "15", with |-> "Parth, Nitish"]}

\* group(1) of DELETE_PATTERN: the text of a uuid
DeleteIds == 1..MaxUuid

----------------------------------------------------------------------------
\* datetime

NoneDt == [min |-> -1, tz |-> "None"]

\* dateparser.parse(date_text, settings={"PREFER_DATES_FROM": "future"})
dateparser_parse(date_text) ==
    CASE date_text = "2025-06-02 09:00"     -> [min |-> 540,  tz |-> "naive"]
      [] date_text = "2025-06-02 09:15"     -> [min |-> 555,  tz |-> "naive"]
      [] date_text = "2025-06-03 00:00"     -> [min |-> 1440, tz |-> "naive"]
      [] date_text = "2025-06-05 09:00 UTC" -> [min |-> 3 * MinutesPerDay + 540, tz |-> "utc"]
      [] OTHER                              -> NoneDt

\* parse_to_datetime: the datetime, or ValueError when dateparser gives None
parse_to_datetime(date_text) ==
    LET dt == dateparser_parse(date_text) IN
    IF dt = NoneDt
    THEN [exc |-> "ValueError", dt |-> NoneDt]
    ELSE [exc |-> "", dt |-> dt]

\* start_dt + timedelta(minutes=duration_minutes)
PlusMinutes(dt, duration_minutes) ==
    [min |-> dt.min + duration_minutes, tz |-> dt.tz]

\* datetime.isoformat(): the digits, and the offset of an aware datetime
isoformat(dt) ==
    [digits |-> dt.min, offset |-> IF dt.tz = "utc" THEN "+00:00" ELSE ""]

\* datetime.fromisoformat()
fromisoformat(s) ==
    [min |-> s.digits, tz |-> IF s.offset = "" THEN "naive" ELSE "utc"]

\* datetime.date(): the calendar date of the wall-clock fields
DateOf(dt) == dt.min \div MinutesPerDay

\* a < b on datetimes is defined only for equal awareness
Comparable(a, b) == a.tz = b.tz

Before(a, b) == a.min < b.min

----------------------------------------------------------------------------
\* Event and the persisted file

Event(id, title, start, end, participants) ==
    [id |-> id, title |-> title, start |-> start, end |-> end,
     participants |-> participants]

\* The file is absent, or text that is not JSON ("garbage"), or a JSON value:
\* a number, an object (items: its keys) or an array (items: its elements).
\* An element is an object with the mapping d, or a value of another type.
Absent == [tag |-> "absent", items |-> <<>>]

Garbage == [tag |-> "garbage", items |-> <<>>]

JsonNumber == [tag |-> "number", items |-> <<>>]

JsonObject(d) == [tag |-> "object", d |-> d]

JsonScalar(type) == [tag |-> type, d |-> [value |-> 0]]

JsonTop(tag, items) == [tag |-> tag, items |-> items]

\* save_events: json.dump([asdict(e) for e in events]) over the whole file
save_events(events) ==
    [tag |-> "array", items |-> [i \in 1..Len(events) |-> JsonObject(events[i])]]

\* Event(**e) succeeds exactly when e is a mapping with the five field names
EventFromJson(item) == item.tag = "object" /\ DOMAIN item.d = EventFields

\* load_events: [exc, events]
load_events(f) ==
    CASE f.tag = "absent"  -> [exc |-> "", events |-> <<>>]
      [] f.tag = "garbage" -> [exc |-> "", events |-> <<>>]
      [] f.tag = "number"  -> [exc |-> "TypeError", events |-> <<>>]
      [] OTHER ->
            IF \A i \in 1..Len(f.items) : EventFromJson(f.items[i])
            THEN [exc |-> "", events |-> [i \in 1..Len(f.items) |-> f.items[i].d]]
            ELSE [exc |-> "TypeError", events |-> <<>>]

----------------------------------------------------------------------------
\* What a call gives back: the message returned, or the exception raised

Out(kind, titles, lines, exc) ==
    [kind |-> kind, titles |-> titles, lines |-> lines, exc |-> exc]

NoOutput == Out("none", <<>>, <<>>, "")

Raised(exc) == Out("raised", <<>>, <<>>, exc)

\* the result of a core function: what it returns and what it leaves behind
Result(ret, store, f) == [ret |-> ret, store |-> store, file |-> f]

TitlesOf(evs) == [i \in 1..Len(evs) |-> evs[i].title]

\* variant: only a new start inside the stored interval counts
Overlaps_StartInside(e, start_dt, end_dt) ==
    /\ ~Before(start_dt, fromisoformat(e.start))
    /\ Before(start_dt, fromisoformat(e.end))

\* main.py:92  the test of the conflict scan for one stored event
Overlaps(e, start_dt, end_dt) ==
    /\ Before(fromisoformat(e.start), end_dt)
    /\ Before(start_dt, fromisoformat(e.end))

\* variant: the scan looks at the most recent event only
ConflictsOf_LastOnly(store, start_dt, end_dt) ==
    IF store # <<>> /\ Overlaps(store[Len(store)], start_dt, end_dt)
    THEN <<store[Len(store)]>>
    ELSE <<>>

\* main.py:90-93  the list of conflicting events
ConflictsOf(store, start_dt, end_dt) ==
    LET Hit(e) == Overlaps(e, start_dt, end_dt) IN SelectSeq(store, Hit)

\* main.py:75-101
schedule_event(store, f, event_id, title, datetime_text, duration_minutes, participants) ==
    LET p == parse_to_datetime(datetime_text) IN
    IF p.exc # "" THEN Result(Raised(p.exc), store, f)
    ELSE
      LET start_dt == p.dt
          end_dt   == PlusMinutes(start_dt, duration_minutes)
          parts    == IF participants = <<>> THEN DEFAULT_PARTICIPANTS ELSE participants
          event    == Event(event_id, title, isoformat(start_dt), isoformat(end_dt), parts)
      IN
      IF \E i \in 1..Len(store) : ~Comparable(fromisoformat(store[i].start), end_dt)
      THEN Result(Raised("TypeError"), store, f)
      ELSE
        LET conflicts == ConflictsOf(store, start_dt, end_dt) IN
        IF conflicts # <<>>
        THEN Result(Out("conflict", TitlesOf(conflicts), <<>>, ""), store, f)
        ELSE LET appended == Append(store, event) IN
             Result(Out("scheduled", <<title>>, <<event>>, ""), appended, save_events(appended))

\* sorted(events, key=start): stable insertion by the start datetime
InsertByStart(e, sorted_evs) ==
    LET k == Cardinality({i \in 1..Len(sorted_evs) :
                 ~Before(fromisoformat(e.start), fromisoformat(sorted_evs[i].start))})
    IN SubSeq(sorted_evs, 1, k) \o <<e>> \o SubSeq(sorted_evs, k + 1, Len(sorted_evs))

\* variant: the listing keeps the order of the store
SortedByStart_Unsorted(evs) == evs

RECURSIVE SortedByStart(_)
SortedByStart(evs) ==
    IF evs = <<>> THEN <<>>
    ELSE InsertByStart(evs[Len(evs)], SortedByStart(SubSeq(evs, 1, Len(evs) - 1)))

\* main.py:106  the events whose start falls on target_date
OnDate(store, target_date) ==
    LET Hit(e) == DateOf(fromisoformat(e.start)) = target_date IN SelectSeq(store, Hit)

\* main.py:103-121  date_text = "" stands for the argument left out
list_events(store, f, date_text) ==
    LET p      == parse_to_datetime(date_text)
        events == IF date_text # "" THEN OnDate(store, DateOf(p.dt)) ELSE store
    IN
    IF date_text # "" /\ p.exc # "" THEN Result(Raised(p.exc), store, f)
    ELSE IF events = <<>>
    THEN Result(Out(IF date_text # "" THEN "no_events_on_date" ELSE "no_events",
                    <<>>, <<>>, ""), store, f)
    ELSE IF \E i, j \in 1..Len(events) :
                ~Comparable(fromisoformat(events[i].start), fromisoformat(events[j].start))
    THEN Result(Raised("TypeError"), store, f)
    ELSE Result(Out("listing", <<>>, SortedByStart(events), ""), store, f)

\* variant: pops the last element
RemoveFirst_DropLast(store, e) == SubSeq(store, 1, Len(store) - 1)

\* list.remove(e): drops the first element equal to e
RemoveFirst(store, e) ==
    LET k == CHOOSE i \in 1..Len(store) :
                 store[i] = e /\ \A j \in 1..(i - 1) : store[j] # e
    IN SubSeq(store, 1, k - 1) \o SubSeq(store, k + 1, Len(store))

\* variant: the deletion is not written to the file
remove_event_NoSave(store, f, event_id) ==
    IF \E i \in 1..Len(store) : store[i].id = event_id
    THEN LET k == CHOOSE i \in 1..Len(store) :
                      store[i].id = event_id /\ \A j \in 1..(i - 1) : store[j].id # event_id
             e == store[k]
         IN Result(Out("deleted", <<e.title>>, <<e>>, ""), RemoveFirst(store, e), f)
    ELSE Result(Out("not_found", <<>>, <<>>, ""), store, f)

\* main.py:123-130
remove_event(store, f, event_id) ==
    IF \E i \in 1..Len(store) : store[i].id = event_id
    THEN LET k == CHOOSE i \in 1..Len(store) :
                      store[i].id = event_id /\ \A j \in 1..(i - 1) : store[j].id # event_id
             e == store[k]
             removed == RemoveFirst(store, e)
         IN Result(Out("deleted", <<e.title>>, <<e>>, ""), removed, save_events(removed))
    ELSE Result(Out("not_found", <<>>, <<>>, ""), store, f)

----------------------------------------------------------------------------
\* Command processing

Cmd(intent, title, dt_text, duration, with, id) ==
    [intent |-> intent, title |-> title, dt_text |-> dt_text,
     duration |-> duration, with |-> with, id |-> id]

NoCommand == Cmd("none", "", "", "", "", 0)

\* int(m.group(3))
ToInt(digits) ==
    CASE digits = "0" -> 0
      [] digits = "15" -> 15

\* [p.strip() for p in m.group(4).split(",")]
SplitParticipants(text) ==
    CASE text = "Parth, Nitish" -> <<"Parth", "Nitish">>

\* main.py:133-168  cmd is the matched command, event_id the next uuid4()
handle_command(store, f, event_id, cmd) ==
    CASE cmd.intent = "add" ->
            LET duration == IF cmd.duration # "" THEN ToInt(cmd.duration) ELSE DEFAULT_DURATION
                participants == IF cmd.with # "" THEN SplitParticipants(cmd.with) ELSE <<>>
                r == schedule_event(store, f, event_id, cmd.title, cmd.dt_text,
                                    duration, participants)
            IN IF r.ret.kind = "raised"
               THEN Result(Out("error", <<>>, <<>>, r.ret.exc), r.store, r.file)
               ELSE r
      [] cmd.intent = "view"     -> list_events(store, f, cmd.dt_text)
      [] cmd.intent = "view_all" -> list_events(store, f, "")
      [] cmd.intent = "delete"   -> remove_event(store, f, cmd.id)
      [] OTHER -> Result(Out("not_recognized", <<>>, <<>>, ""), store, f)

----------------------------------------------------------------------------
\* The process

\* variant: every call returns the same value
uuid4_Constant(count) == 1

\* main.py:79  uuid4(): a value that no earlier call has returned
uuid4(count) == count + 1

\* main.py:47  events_store = load_events() when the module starts
Startup ==
    /\ pc = "start"
    /\ LET l == load_events(file) IN
       IF l.exc = ""
       THEN /\ events_store' = l.events
            /\ pc' = "prompt"
            /\ output' = Out("loaded", <<>>, <<>>, "")
       ELSE /\ events_store' = <<>>
            /\ pc' = "crashed"
            /\ output' = Raised(l.exc)
    /\ command' = NoCommand
    /\ UNCHANGED <<file, uuid_count>>

\* main.py:173-178  one turn of the loop on the line cmd
Turn(cmd, uses_uuid) ==
    /\ LET r == handle_command(events_store, file, uuid4(uuid_count), cmd) IN
       /\ events_store' = r.store
       /\ file' = r.file
       /\ output' = r.ret
       /\ pc' = IF r.ret.kind = "raised" THEN "crashed" ELSE "prompt"
    /\ command' = cmd
    /\ uuid_count' = IF uses_uuid THEN uuid_count + 1 ELSE uuid_count

AddCommand ==
    \E title \in Titles, dt_text \in DateTexts, tail \in AddTails :
        /\ pc = "prompt"
        /\ uuid_count < MaxUuid
        /\ Turn(Cmd("add", title, dt_text, tail.duration, tail.with, 0),
                parse_to_datetime(dt_text).exc = "")

ViewCommand ==
    \E dt_text \in DateTexts :
        /\ pc = "prompt"
        /\ Turn(Cmd("view", "", dt_text, "", "", 0), FALSE)

ViewAllCommand ==
    /\ pc = "prompt"
    /\ Turn(Cmd("view_all", "", "", "", "", 0), FALSE)

DeleteCommand ==
    \E id \in DeleteIds :
        /\ pc = "prompt"
        /\ Turn(Cmd("delete", "", "", "", "", id), FALSE)

\* a line that matches none of the patterns
OtherCommand ==
    /\ pc = "prompt"
    /\ Turn(Cmd("other", "", "", "", "", 0), FALSE)

\* main.py:175-177  exit or quit
ExitCommand ==
    /\ pc = "prompt"
    /\ pc' = "exited"
    /\ command' = Cmd("exit", "", "", "", "", 0)
    /\ output' = NoOutput
    /\ UNCHANGED <<events_store, file, uuid_count>>

\* the process is gone (exit, uncaught exception or kill) and is started again
Relaunch ==
    /\ pc # "start"
    /\ pc' = "start"
    /\ events_store' = <<>>
    /\ command' = NoCommand
    /\ output' = NoOutput
    /\ UNCHANGED <<file, uuid_count>>

Init ==
    /\ events_store = <<>>
    /\ file = Absent
    /\ uuid_count = 0
    /\ pc = "start"
    /\ command = NoCommand
    /\ output = NoOutput

Next ==
    \/ Startup
    \/ AddCommand
    \/ ViewCommand
    \/ ViewAllCommand
    \/ DeleteCommand
    \/ OtherCommand
    \/ ExitCommand
    \/ Relaunch

Spec == Init /\ [][Next]_vars

\* The files a first start can find: written by another hand than save_events
OldEvent ==
    Event(0, "old", isoformat([min |-> 540, tz |-> "naive"]),
          isoformat([min |-> 570, tz |-> "naive"]), DEFAULT_PARTICIPANTS)

FileStates ==
    { Absent, Garbage, JsonNumber,
      JsonTop("object", <<>>),
      JsonTop("object", <<JsonScalar("string")>>),
      JsonTop("array", <<>>),
      JsonTop("array", <<JsonScalar("number")>>),
      JsonTop("array", <<JsonObject([id |-> 0, title |-> "old"])>>),
      JsonTop("array", <<JsonObject(OldEvent), JsonObject([id |-> 0, title |-> "old"])>>),
      JsonTop("array", <<JsonObject(OldEvent)>>) }

InitAnyFile ==
    /\ events_store = <<>>
    /\ file \in FileStates
    /\ uuid_count = 0
    /\ pc = "start"
    /\ command = NoCommand
    /\ output = NoOutput

SpecLoad == InitAnyFile /\ [][Next]_vars

TypeOK ==
    /\ pc \in {"start", "prompt", "exited", "crashed"}
    /\ uuid_count \in 0..MaxUuid
    /\ Len(events_store) <= MaxUuid + 1

----------------------------------------------------------------------------
\* Vocabulary of the properties

StartOf(e) == fromisoformat(e.start)

EndOf(e) == fromisoformat(e.end)

\* [s1, e1) and [s2, e2) share an instant
HalfOpenOverlap(s1, e1, s2, e2) == s1.min < e2.min /\ s2.min < e1.min

Parseable(date_text) == dateparser_parse(date_text) # NoneDt

RequestedStart(cmd) == dateparser_parse(cmd.dt_text)

RequestedMinutes(cmd) ==
    IF cmd.duration = "" THEN DEFAULT_DURATION ELSE ToInt(cmd.duration)

RequestedEnd(cmd) == PlusMinutes(RequestedStart(cmd), RequestedMinutes(cmd))

\* the requested interval of cmd overlaps the stored event e
RequestOverlaps(cmd, e) ==
    HalfOpenOverlap(StartOf(e), EndOf(e), RequestedStart(cmd), RequestedEnd(cmd))

\* the step hands a command of this intent to handle_command
TurnOf(intent) == pc = "prompt" /\ command'.intent = intent

Range(seq) == {seq[i] : i \in 1..Len(seq)}

Ascending(evs) ==
    \A i, j \in 1..Len(evs) : i < j => StartOf(evs[i]).min <= StartOf(evs[j]).min

\* the file holds exactly the sequence evs
FileHolds(evs) ==
    /\ file.tag = "array"
    /\ Len(file.items) = Len(evs)
    /\ \A i \in 1..Len(evs) : file.items[i] = JsonObject(evs[i])

\* a JSON array of objects with exactly the five fields of Event
WellFormedEventList(f) ==
    /\ f.tag = "array"
    /\ \A i \in 1..Len(f.items) :
          f.items[i].tag = "object" /\ DOMAIN f.items[i].d = EventFields

----------------------------------------------------------------------------
C2_NonOverlappingAccepted ==
    [][ ( /\ TurnOf("add")
          /\ Parseable(command'.dt_text)
          /\ \A i \in 1..Len(events_store) : ~RequestOverlaps(command', events_store[i]) )
        => ( /\ output'.kind = "scheduled"
             /\ Len(events_store') = Len(events_store) + 1
             /\ SubSeq(events_store', 1, Len(events_store)) = events_store
             /\ StartOf(events_store'[Len(events_store')]) = RequestedStart(command')
             /\ EndOf(events_store'[Len(events_store')]) = RequestedEnd(command') ) ]_vars

\* C3: from an empty store, no two distinct stored events ever overlap.
C3_NoOverlapInStore ==
    \A i, j \in 1..Len(events_store) :
        i # j => ~HalfOpenOverlap(StartOf(events_store[i]), EndOf(events_store[i]),
                                  StartOf(events_store[j]), EndOf(events_store[j]))

\* two stored events touch end-to-start, a third was refused or removed
C3_Witness ==
    /\ uuid_count = MaxUuid
    /\ \E i, j \in 1..Len(events_store) :
          i # j /\ EndOf(events_store[i]).min = StartOf(events_store[j]).min
                /\ StartOf(events_store[i]).min < EndOf(events_store[i]).min

\* C4: delete of a stored id removes exactly that event and keeps the others
\* in order; delete of an unknown id returns not-found and changes nothing.
C4_RemoveExactlyOne ==
    [][ TurnOf("delete") =>
          IF \E k \in 1..Len(events_store) : events_store[k].id = command'.id
          THEN /\ output'.kind = "deleted"
               /\ \E k \in 1..Len(events_store) :
                     /\ events_store[k].id = command'.id
                     /\ events_store' = SubSeq(events_store, 1, k - 1)
                                        \o SubSeq(events_store, k + 1, Len(events_store))
          ELSE /\ output'.kind = "not_found"
               /\ events_store' = events_store
               /\ file' = file ]_vars

\* the first of three events was deleted, the other two are still in order
C4_Witness ==
    /\ command.intent = "delete"
    /\ output.kind = "deleted"
    /\ Len(events_store) = 2
    /\ command.id < events_store[1].id
    /\ events_store[1].id < events_store[2].id

\* C5: no error raised while a command is processed leaves handle_command:
\* every line gets a message and the loop goes on to the next line.
C5_NoErrorEscapes ==
    command.intent \in {"add", "view", "view_all", "delete", "other"}
        => (output.kind # "raised" /\ pc = "prompt")

\* C6: when an add or a delete has returned success, the file holds exactly
\* the sequence of the store, and loading it gives that store back.
C6_SavedBeforeSuccess ==
    (pc = "prompt" /\ output.kind \in {"scheduled", "deleted"})
        => ( /\ FileHolds(events_store)
             /\ load_events(file) = [exc |-> "", events |-> events_store] )

C6_Witness ==
    /\ pc = "prompt"
    /\ output.kind = "deleted"
    /\ Len(events_store) >= 1
    /\ FileHolds(events_store)

\* C7: load_events returns the empty sequence, without raising, for every
\* file that is not a well-formed event list.
C7_MalformedLoadsEmpty ==
    (command = NoCommand /\ output.kind \in {"loaded", "raised"} /\ ~WellFormedEventList(file))
        => (output.kind = "loaded" /\ events_store = <<>>)

\* C8: every stored event ends strictly after it starts.
C8_EndAfterStart ==
    \A i \in 1..Len(events_store) :
        StartOf(events_store[i]).min < EndOf(events_store[i]).min

\* C9: a listing for a date holds exactly the stored events that start on
\* that date, every listing is ascending by start, and listing changes
\* neither the store nor the file.
C9_ListingOfStore ==
    /\ command.intent = "view" /\ Parseable(command.dt_text) =>
          LET on == {i \in 1..Len(events_store) :
                        DateOf(StartOf(events_store[i])) = DateOf(RequestedStart(command))}
          IN /\ output.kind = (IF on = {} THEN "no_events_on_date" ELSE "listing")
             /\ Range(output.lines) = {events_store[i] : i \in on}
             /\ Len(output.lines) = Cardinality(on)
             /\ Ascending(output.lines)
    /\ command.intent = "view_all" =>
          /\ output.kind = (IF events_store = <<>> THEN "no_events" ELSE "listing")
          /\ Range(output.lines) = Range(events_store)
          /\ Len(output.lines) = Len(events_store)
          /\ Ascending(output.lines)

C9_ListingExactSortedReadOnly ==
    /\ []C9_ListingOfStore
    /\ [][ (TurnOf("view") \/ TurnOf("view_all"))
             => (events_store' = events_store /\ file' = file) ]_vars

\* a listing for one date that leaves an event of another date out and
\* orders two events the store holds the other way round
C9_Witness ==
    /\ command.intent = "view"
    /\ output.kind = "listing"
    /\ Len(output.lines) = 2
    /\ Len(events_store) = 3
    /\ \E i, j \in 1..Len(events_store) :
          i < j /\ output.lines[1] = events_store[j] /\ output.lines[2] = events_store[i]

\* C10: no two stored events share an id, also right after a load, and a
\* newly stored event gets an id that no earlier event had.
C10_IdsInStoreDistinct ==
    /\ \A i, j \in 1..Len(events_store) :
          i # j => events_store[i].id # events_store[j].id
    /\ \A i \in 1..Len(events_store) : events_store[i].id \in 1..uuid_count

C10_UniqueIds ==
    /\ []C10_IdsInStoreDistinct
    /\ [][ (pc = "prompt" /\ output'.kind = "scheduled")
             => events_store'[Len(events_store')].id > uuid_count ]_vars

\* two events loaded back after a restart, a third id already retired
C10_Witness ==
    /\ output.kind = "loaded"
    /\ Len(events_store) = 2
    /\ uuid_count = MaxUuid

====
